---- MODULE Spec2Model ----
(***************************************************************************)
(* Model of the aircraft-id cache of dumphfdl (src/ac_cache.c): a forward  *)
(* store (freq, id) -> ICAO address and an inverse store                   *)
(* (freq, ICAO address) -> id, both instances of the generic TTL cache.    *)
(***************************************************************************)
EXTENDS Integers, Sequences, FiniteSets, TLC

(***************************************************************************)
(* Program constants.                                                      *)
(***************************************************************************)
AC_CACHE_TTL == 14400
AC_CACHE_EXPIRATION_INTERVAL == 309

(***************************************************************************)
(* Input domains.  The values are chosen so that both additive hashes      *)
(* collide on distinct keys: (1, 2) and (2, 1) both hash to 3.  All values *)
(* are far below 2^31, so no 32-bit sum of the model wraps.                *)
(***************************************************************************)
MaxFreq == 2
MaxId == 2
MaxIcao == 2

Freqs == 1..MaxFreq
Ids == 1..MaxId
Icaos == 1..MaxIcao

(***************************************************************************)
(* Keys and entries (struct ac_cache_fwd_key, struct ac_cache_inv_key,     *)
(* struct ac_cache_entry, struct ac_cache_inv_entry).                      *)
(***************************************************************************)
FwdKey(freq, id) == [freq |-> freq, id |-> id]
InvKey(freq, icao_address) == [freq |-> freq, icao_address |-> icao_address]
FwdEntry(icao_address) == [icao_address |-> icao_address]
InvEntry(id) == [id |-> id]

FwdKeys == {FwdKey(f, i) : f \in Freqs, i \in Ids}
InvKeys == {InvKey(f, a) : f \in Freqs, a \in Icaos}

\* A null pointer, as returned by a lookup that misses.
NULL == [null |-> TRUE]

(***************************************************************************)
(* The two vtables: key hash and key equality of each store.               *)
(***************************************************************************)
ac_cache_fwd_key_hash(key) == key.freq + key.id

\* A variant that reads both operands from key1.
ac_cache_fwd_key_compare_same_operand(key1, key2) ==
    LET k1 == key1
        k2 == key1
    IN  k1.freq = k2.freq /\ k1.id = k2.id

ac_cache_fwd_key_compare(key1, key2) ==
    LET k1 == key1
        k2 == key2
    IN  k1.freq = k2.freq /\ k1.id = k2.id

ac_cache_inv_key_hash(key) == key.freq + key.icao_address

\* Both k1 and k2 are read from key1 (line 178).
ac_cache_inv_key_compare(key1, key2) ==
    LET k1 == key1
        k2 == key1
    IN  k1.freq = k2.freq /\ k1.icao_address = k2.icao_address

ac_cache_fwd_vtable == "fwd"
ac_cache_inv_vtable == "inv"

cache_key_hash(vtable, key) ==
    IF vtable = ac_cache_fwd_vtable THEN ac_cache_fwd_key_hash(key)
                                    ELSE ac_cache_inv_key_hash(key)

cache_key_compare(vtable, key1, key2) ==
    IF vtable = ac_cache_fwd_vtable THEN ac_cache_fwd_key_compare(key1, key2)
                                    ELSE ac_cache_inv_key_compare(key1, key2)

(***************************************************************************)
(* The generic TTL cache engine (cache.h), after the contract ac_cache.c    *)
(* relies on: create, entry_create, entry_lookup, entry_delete and a       *)
(* periodic expiration sweep.  A store keeps its elements in hash buckets; *)
(* a key is searched in the bucket of its hash, and the first element the  *)
(* key-equality function accepts is the match.  Two keys share a bucket    *)
(* exactly when their hashes are equal, which is the fewest collisions any *)
(* bucket layout gives.                                                    *)
(***************************************************************************)
Buckets ==
    {ac_cache_fwd_key_hash(k) : k \in FwdKeys} \cup
    {ac_cache_inv_key_hash(k) : k \in InvKeys}

cache_create(vtable, ttl, expiration_interval, t) ==
    [vtable |-> vtable,
     ttl |-> ttl,
     expiration_interval |-> expiration_interval,
     last_expiration_time |-> t,
     table |-> [b \in Buckets |-> <<>>],
     destroyed |-> FALSE]

\* Destroys every element with the vtable's destructors, then the store.
cache_destroy(c) ==
    [c EXCEPT !.table = [b \in Buckets |-> <<>>], !.destroyed = TRUE]

\* Position of the element matching key in its bucket, 0 when there is none.
cache_find(c, key) ==
    LET bucket == c.table[cache_key_hash(c.vtable, key)]
        hits == {i \in 1..Len(bucket) :
                    cache_key_compare(c.vtable, key, bucket[i].key)}
    IN  IF hits = {} THEN 0
        ELSE CHOOSE i \in hits : \A j \in hits : i <= j

RemoveAt(s, i) == SubSeq(s, 1, i - 1) \o SubSeq(s, i + 1, Len(s))

\* Insert, replacing the value of a matching element if there is one.
cache_entry_create(c, key, data, created_time) ==
    LET h == cache_key_hash(c.vtable, key)
        i == cache_find(c, key)
        bucket == c.table[h]
    IN  IF i = 0
        THEN [c EXCEPT !.table[h] =
                 Append(bucket, [key |-> key, data |-> data,
                                 created_time |-> created_time])]
        ELSE [c EXCEPT !.table[h][i] =
                 [key |-> bucket[i].key, data |-> data,
                  created_time |-> created_time]]

\* Returns the data of the matching element, or NULL.
cache_entry_lookup(c, key) ==
    LET i == cache_find(c, key)
    IN  IF i = 0 THEN NULL
        ELSE c.table[cache_key_hash(c.vtable, key)][i].data

\* Returns whether an element was removed, and the store afterwards.
cache_entry_delete(c, key) ==
    LET h == cache_key_hash(c.vtable, key)
        i == cache_find(c, key)
    IN  IF i = 0
        THEN [result |-> FALSE, cache |-> c]
        ELSE [result |-> TRUE,
              cache |-> [c EXCEPT !.table[h] = RemoveAt(c.table[h], i)]]

is_cache_entry_expired(c, e, t) == e.created_time + c.ttl <= t

\* One expiration sweep of a store at time t.
cache_expire(c, t) ==
    [c EXCEPT !.table = [b \in Buckets |->
                            SelectSeq(c.table[b],
                                LAMBDA e : ~is_cache_entry_expired(c, e, t))],
              !.last_expiration_time = t]

\* All elements of a store.
cache_elements(c) ==
    UNION {{c.table[b][i] : i \in 1..Len(c.table[b])} : b \in Buckets}

\* A sweep of the store is due at time t.
cache_expiration_due(c, t) ==
    c.last_expiration_time + c.expiration_interval <= t

(***************************************************************************)
(* The coordinator, struct ac_cache, and its public operations as          *)
(* functions of the object.                                                *)
(***************************************************************************)
\* A variant that passes the TTL as the forward store's expiration interval.
ac_cache_create_ttl_as_interval(t_fwd, t_inv) ==
    [fwd_cache |-> cache_create(ac_cache_fwd_vtable, AC_CACHE_TTL,
                                AC_CACHE_TTL, t_fwd),
     inv_cache |-> cache_create(ac_cache_inv_vtable, AC_CACHE_TTL,
                                AC_CACHE_EXPIRATION_INTERVAL, t_inv),
     freed |-> FALSE]

\* A variant that passes the TTL as the inverse store's expiration interval.
ac_cache_create_inv_ttl_as_interval(t_fwd, t_inv) ==
    [fwd_cache |-> cache_create(ac_cache_fwd_vtable, AC_CACHE_TTL,
                                AC_CACHE_EXPIRATION_INTERVAL, t_fwd),
     inv_cache |-> cache_create(ac_cache_inv_vtable, AC_CACHE_TTL,
                                AC_CACHE_TTL, t_inv),
     freed |-> FALSE]

\* t_fwd and t_inv are the clock readings at the creation of each store.
ac_cache_create(t_fwd, t_inv) ==
    [fwd_cache |-> cache_create(ac_cache_fwd_vtable, AC_CACHE_TTL,
                                AC_CACHE_EXPIRATION_INTERVAL, t_fwd),
     inv_cache |-> cache_create(ac_cache_inv_vtable, AC_CACHE_TTL,
                                AC_CACHE_EXPIRATION_INTERVAL, t_inv),
     freed |-> FALSE]

ac_cache_fwd_entry_create(c, freq, id, icao_address, created_time) ==
    LET fwd_entry == FwdEntry(icao_address)
        fwd_key == FwdKey(freq, id)
    IN  [c EXCEPT !.fwd_cache =
            cache_entry_create(c.fwd_cache, fwd_key, fwd_entry, created_time)]

ac_cache_inv_entry_create(c, freq, id, icao_address, created_time) ==
    LET inv_entry == InvEntry(id)
        inv_key == InvKey(freq, icao_address)
    IN  [c EXCEPT !.inv_cache =
            cache_entry_create(c.inv_cache, inv_key, inv_entry, created_time)]

\* A variant that reads the clock again, one second later, for the inverse
\* entry.
ac_cache_entry_create_second_reading(c, freq, id, icao_address, t) ==
    LET c1 == ac_cache_fwd_entry_create(c, freq, id, icao_address, t)
    IN  ac_cache_inv_entry_create(c1, freq, id, icao_address, t + 1)

\* t is the value of time(NULL), read once.
ac_cache_entry_create(c, freq, id, icao_address, t) ==
    LET c1 == ac_cache_fwd_entry_create(c, freq, id, icao_address, t)
    IN  ac_cache_inv_entry_create(c1, freq, id, icao_address, t)

\* What ac_cache_entry_delete does, in order, with the inverse entry e that
\* its lookup returned: line 87 reads e->id; the cache_entry_delete of line
\* 88, when it removes the element, destroys e with the inverse vtable's
\* destructor; the debug_print of line 91 (result true) or 93 (result
\* false) has e->id as an argument.
inv_entry_accesses(inv_deleted, result) ==
    <<[line |-> 87, access |-> "read"]>>
    \o (IF inv_deleted THEN <<[line |-> 88, access |-> "destroy"]>> ELSE <<>>)
    \o <<[line |-> IF result THEN 91 ELSE 93, access |-> "read"]>>

\* A variant that leaves out the deletion from the forward store.
ac_cache_entry_delete_inv_only(c, freq, icao_address) ==
    LET inv_key == InvKey(freq, icao_address)
        e == cache_entry_lookup(c.inv_cache, inv_key)
    IN  IF e # NULL
        THEN LET d_inv == cache_entry_delete(c.inv_cache, inv_key)
             IN  [result |-> d_inv.result,
                  attempted |-> TRUE,
                  e_accesses |-> inv_entry_accesses(d_inv.result,
                                                   d_inv.result),
                  id |-> e.id,
                  inv_deleted |-> d_inv.result,
                  fwd_deleted |-> FALSE,
                  cache |-> [c EXCEPT !.inv_cache = d_inv.cache]]
        ELSE [result |-> FALSE,
              attempted |-> FALSE,
              e_accesses |-> <<>>,
              id |-> 0,
              inv_deleted |-> FALSE,
              fwd_deleted |-> FALSE,
              cache |-> c]

\* A variant whose result starts as true.
ac_cache_entry_delete_result_true(c, freq, icao_address) ==
    LET inv_key == InvKey(freq, icao_address)
        e == cache_entry_lookup(c.inv_cache, inv_key)
    IN  IF e # NULL
        THEN LET fwd_key == FwdKey(freq, e.id)
                 d_inv == cache_entry_delete(c.inv_cache, inv_key)
                 d_fwd == cache_entry_delete(c.fwd_cache, fwd_key)
             IN  [result |-> d_inv.result \/ d_fwd.result,
                  attempted |-> TRUE,
                  e_accesses |-> inv_entry_accesses(d_inv.result,
                                                   d_inv.result \/ d_fwd.result),
                  id |-> e.id,
                  inv_deleted |-> d_inv.result,
                  fwd_deleted |-> d_fwd.result,
                  cache |-> [c EXCEPT !.inv_cache = d_inv.cache,
                                      !.fwd_cache = d_fwd.cache]]
        ELSE [result |-> TRUE,
              attempted |-> FALSE,
              e_accesses |-> <<>>,
              id |-> 0,
              inv_deleted |-> FALSE,
              fwd_deleted |-> FALSE,
              cache |-> c]

\* A variant that joins the two deletions with a short-circuit or: the
\* forward store is touched only when the inverse deletion removed nothing.
ac_cache_entry_delete_short_circuit(c, freq, icao_address) ==
    LET inv_key == InvKey(freq, icao_address)
        e == cache_entry_lookup(c.inv_cache, inv_key)
    IN  IF e # NULL
        THEN LET fwd_key == FwdKey(freq, e.id)
                 d_inv == cache_entry_delete(c.inv_cache, inv_key)
                 d_fwd == IF d_inv.result
                          THEN [result |-> FALSE, cache |-> c.fwd_cache]
                          ELSE cache_entry_delete(c.fwd_cache, fwd_key)
             IN  [result |-> d_inv.result \/ d_fwd.result,
                  attempted |-> TRUE,
                  e_accesses |-> inv_entry_accesses(d_inv.result,
                                                   d_inv.result \/ d_fwd.result),
                  id |-> e.id,
                  inv_deleted |-> d_inv.result,
                  fwd_deleted |-> d_fwd.result,
                  cache |-> [c EXCEPT !.inv_cache = d_inv.cache,
                                      !.fwd_cache = d_fwd.cache]]
        ELSE [result |-> FALSE,
              attempted |-> FALSE,
              e_accesses |-> <<>>,
              id |-> 0,
              inv_deleted |-> FALSE,
              fwd_deleted |-> FALSE,
              cache |-> c]

\* A variant that, finding no inverse entry, searches the forward store of
\* the frequency for an entry holding icao_address and deletes it.
ac_cache_entry_delete_fwd_search(c, freq, icao_address) ==
    LET inv_key == InvKey(freq, icao_address)
        e == cache_entry_lookup(c.inv_cache, inv_key)
        ids == {i \in Ids : cache_entry_lookup(c.fwd_cache, FwdKey(freq, i))
                                = FwdEntry(icao_address)}
    IN  IF e # NULL
        THEN LET fwd_key == FwdKey(freq, e.id)
                 d_inv == cache_entry_delete(c.inv_cache, inv_key)
                 d_fwd == cache_entry_delete(c.fwd_cache, fwd_key)
             IN  [result |-> d_inv.result \/ d_fwd.result,
                  attempted |-> TRUE,
                  e_accesses |-> inv_entry_accesses(d_inv.result,
                                                   d_inv.result \/ d_fwd.result),
                  id |-> e.id,
                  inv_deleted |-> d_inv.result,
                  fwd_deleted |-> d_fwd.result,
                  cache |-> [c EXCEPT !.inv_cache = d_inv.cache,
                                      !.fwd_cache = d_fwd.cache]]
        ELSE IF ids # {}
        THEN LET id == CHOOSE i \in ids : \A j \in ids : i <= j
                 d_fwd == cache_entry_delete(c.fwd_cache, FwdKey(freq, id))
             IN  [result |-> d_fwd.result,
                  attempted |-> FALSE,
                  e_accesses |-> <<>>,
                  id |-> id,
                  inv_deleted |-> FALSE,
                  fwd_deleted |-> d_fwd.result,
                  cache |-> [c EXCEPT !.fwd_cache = d_fwd.cache]]
        ELSE [result |-> FALSE,
              attempted |-> FALSE,
              e_accesses |-> <<>>,
              id |-> 0,
              inv_deleted |-> FALSE,
              fwd_deleted |-> FALSE,
              cache |-> c]

\* The returned record holds the result, the object afterwards, the
\* outcome of each of the two store deletions (attempted: whether the
\* branch that deletes was taken) and the accesses to the inverse entry.
ac_cache_entry_delete(c, freq, icao_address) ==
    LET inv_key == InvKey(freq, icao_address)
        e == cache_entry_lookup(c.inv_cache, inv_key)
    IN  IF e # NULL
        THEN LET fwd_key == FwdKey(freq, e.id)
                 d_inv == cache_entry_delete(c.inv_cache, inv_key)
                 d_fwd == cache_entry_delete(c.fwd_cache, fwd_key)
             IN  [result |-> d_inv.result \/ d_fwd.result,
                  attempted |-> TRUE,
                  e_accesses |-> inv_entry_accesses(d_inv.result,
                                                   d_inv.result \/ d_fwd.result),
                  id |-> e.id,
                  inv_deleted |-> d_inv.result,
                  fwd_deleted |-> d_fwd.result,
                  cache |-> [c EXCEPT !.inv_cache = d_inv.cache,
                                      !.fwd_cache = d_fwd.cache]]
        ELSE [result |-> FALSE,
              attempted |-> FALSE,
              e_accesses |-> <<>>,
              id |-> 0,
              inv_deleted |-> FALSE,
              fwd_deleted |-> FALSE,
              cache |-> c]

\* A variant that leaves out the destruction of the inverse store.
ac_cache_destroy_fwd_only(c) ==
    IF c # NULL
    THEN [c EXCEPT !.fwd_cache = cache_destroy(c.fwd_cache),
                   !.freed = TRUE]
    ELSE c

\* freed: XFREE has released the object itself.
ac_cache_destroy(c) ==
    IF c # NULL
    THEN [c EXCEPT !.fwd_cache = cache_destroy(c.fwd_cache),
                   !.inv_cache = cache_destroy(c.inv_cache),
                   !.freed = TRUE]
    ELSE c

\* A variant that takes the entry it finds out of the forward store.
ac_cache_entry_lookup_removing(c, freq, id) ==
    LET fwd_key == FwdKey(freq, id)
        e == cache_entry_lookup(c.fwd_cache, fwd_key)
    IN  [e |-> e,
         cache |-> [c EXCEPT !.fwd_cache =
                       cache_entry_delete(c.fwd_cache, fwd_key).cache]]

\* The returned record holds the entry pointer and the object afterwards.
ac_cache_entry_lookup(c, freq, id) ==
    LET fwd_key == FwdKey(freq, id)
        e == cache_entry_lookup(c.fwd_cache, fwd_key)
    IN  [e |-> e, cache |-> c]

(***************************************************************************)
(* State.                                                                  *)
(*   cache        the ac_cache object                                      *)
(*   now          the clock, as read by time(NULL)                         *)
(*   last         the last completed public operation or sweep, its        *)
(*                arguments and what it returned                           *)
(*   created_at   for every (freq, id), the time of the last               *)
(*                ac_cache_entry_create for it, -1 when there was none     *)
(*   deleted_fwd  the (freq, id) whose forward entry an                    *)
(*                ac_cache_entry_delete has removed since that create      *)
(*   created_inv  every (freq, icao_address) passed to                     *)
(*                ac_cache_entry_create so far                             *)
(***************************************************************************)
VARIABLES cache, now, last, created_at, deleted_fwd, created_inv

vars == <<cache, now, last, created_at, deleted_fwd, created_inv>>

\* Every (freq, id) passed to ac_cache_entry_create so far.
created_fwd == {k \in FwdKeys : created_at[k] >= 0}

\* prev_*: the operation before the last one and its arguments, kept
\* when it is a create or a delete the last operation is paired with (see
\* Create and Delete), "none" and zeros otherwise.
\* e_accesses: what the last delete did with the inverse entry, in order.
NoOp ==
    [op |-> "none", freq |-> 0, id |-> 0, icao_address |-> 0,
     result |-> FALSE, attempted |-> FALSE, inv_deleted |-> FALSE,
     fwd_deleted |-> FALSE, e_accesses |-> <<>>,
     prev_op |-> "none", prev_freq |-> 0, prev_id |-> 0, prev_icao |-> 0,
     prev_result |-> FALSE]

WithPrev(op, keep) ==
    IF keep
    THEN [op EXCEPT !.prev_op = last.op, !.prev_freq = last.freq,
                    !.prev_id = IF last.op = "create" THEN last.id ELSE 0,
                    !.prev_icao = last.icao_address,
                    !.prev_result = last.result]
    ELSE op

Init ==
    /\ now = 0
    /\ cache = ac_cache_create(now, now)
    /\ last = NoOp
    /\ created_at = [k \in FwdKeys |-> -1]
    /\ deleted_fwd = {}
    /\ created_inv = {}

\* Keeps the preceding operation when it is a create of the same id on
\* another frequency.
Create(freq, id, icao_address) ==
    /\ ~cache.freed
    /\ cache' = ac_cache_entry_create(cache, freq, id, icao_address, now)
    /\ last' = WithPrev([NoOp EXCEPT !.op = "create", !.freq = freq,
                                     !.id = id,
                                     !.icao_address = icao_address],
                        last.op = "create" /\ last.id = id
                            /\ last.freq # freq)
    /\ created_at' = [created_at EXCEPT ![FwdKey(freq, id)] = now]
    /\ deleted_fwd' = deleted_fwd \ {FwdKey(freq, id)}
    /\ created_inv' = created_inv \cup {InvKey(freq, icao_address)}
    /\ UNCHANGED now

\* last.result: an entry was returned; last.icao_address: its address.
Lookup(freq, id) ==
    LET r == ac_cache_entry_lookup(cache, freq, id)
    IN  /\ ~cache.freed
        /\ cache' = r.cache
        /\ last' = [NoOp EXCEPT !.op = "lookup", !.freq = freq, !.id = id,
                                !.result = (r.e # NULL),
                                !.icao_address =
                                    IF r.e # NULL THEN r.e.icao_address ELSE 0]
        /\ UNCHANGED <<now, created_at, deleted_fwd, created_inv>>

\* last.attempted: the inverse store held an entry; last.id: the id
\* recovered from it, 0 when there was none.
\* Keeps the preceding operation when it is a create or a delete of the same
\* (freq, icao_address).
Delete(freq, icao_address) ==
    LET d == ac_cache_entry_delete(cache, freq, icao_address)
    IN  /\ ~cache.freed
        /\ cache' = d.cache
        /\ last' = WithPrev([NoOp EXCEPT !.op = "delete", !.freq = freq,
                                         !.icao_address = icao_address,
                                         !.id = d.id,
                                         !.result = d.result,
                                         !.attempted = d.attempted,
                                         !.inv_deleted = d.inv_deleted,
                                         !.fwd_deleted = d.fwd_deleted,
                                         !.e_accesses = d.e_accesses],
                            last.op \in {"create", "delete"}
                                /\ last.freq = freq
                                /\ last.icao_address = icao_address)
        /\ deleted_fwd' = IF d.fwd_deleted
                          THEN deleted_fwd \cup {FwdKey(freq, d.id)}
                          ELSE deleted_fwd
        /\ UNCHANGED <<now, created_at, created_inv>>

\* Teardown, once; no operation is issued on the object afterwards.
\* last.result: a store held an element when the teardown began.
Destroy ==
    /\ ~cache.freed
    /\ cache' = ac_cache_destroy(cache)
    /\ last' = [NoOp EXCEPT !.op = "destroy",
                   !.result = (cache_elements(cache.fwd_cache)
                                   \cup cache_elements(cache.inv_cache) # {})]
    /\ UNCHANGED <<now, created_at, deleted_fwd, created_inv>>

Next ==
    \/ \E f \in Freqs, i \in Ids, a \in Icaos : Create(f, i, a)
    \/ \E f \in Freqs, i \in Ids : Lookup(f, i)
    \/ \E f \in Freqs, a \in Icaos : Delete(f, a)
    \/ Destroy

Spec == Init /\ [][Next]_vars

(***************************************************************************)
(* Time.  Each store sweeps its expired elements once per expiration       *)
(* interval, on its own schedule; the clock does not pass the instant a    *)
(* sweep is due before that sweep has run.                                 *)
(***************************************************************************)
\* Creation stops after MaxCreateTime and the clock stops at MaxTime.
MaxCreateTime == 1
MaxTime == MaxCreateTime + AC_CACHE_TTL + 3 * AC_CACHE_EXPIRATION_INTERVAL

Min(a, b) == IF a <= b THEN a ELSE b

NextDue ==
    Min(cache.fwd_cache.last_expiration_time
            + cache.fwd_cache.expiration_interval,
        cache.inv_cache.last_expiration_time
            + cache.inv_cache.expiration_interval)

\* The clock advances second by second while entries are being created and
\* from then on to the instant of the next sweep.
Tick ==
    /\ ~cache.freed
    /\ \E t \in {now + 1, NextDue} :
          /\ now < t /\ t <= NextDue /\ t <= MaxTime
          /\ (t = now + 1 => (now < MaxCreateTime \/ t = NextDue))
          /\ now' = t
    /\ UNCHANGED <<cache, last, created_at, deleted_fwd, created_inv>>

\* last.result: the sweep removed at least one element.
ExpireFwd ==
    /\ ~cache.freed
    /\ cache_expiration_due(cache.fwd_cache, now)
    /\ cache' = [cache EXCEPT !.fwd_cache = cache_expire(@, now)]
    /\ last' = [NoOp EXCEPT !.op = "expire_fwd",
                   !.result = (cache_elements(cache'.fwd_cache)
                                   # cache_elements(cache.fwd_cache))]
    /\ UNCHANGED <<now, created_at, deleted_fwd, created_inv>>

ExpireInv ==
    /\ ~cache.freed
    /\ cache_expiration_due(cache.inv_cache, now)
    /\ cache' = [cache EXCEPT !.inv_cache = cache_expire(@, now)]
    /\ last' = [NoOp EXCEPT !.op = "expire_inv",
                   !.result = (cache_elements(cache'.inv_cache)
                                   # cache_elements(cache.inv_cache))]
    /\ UNCHANGED <<now, created_at, deleted_fwd, created_inv>>

\* The clock may advance between the creation of the two stores.
InitTTL ==
    /\ now \in {0, 1}
    /\ cache = ac_cache_create(0, now)
    /\ last = NoOp
    /\ created_at = [k \in FwdKeys |-> -1]
    /\ deleted_fwd = {}
    /\ created_inv = {}

\* The timed behaviours, on one channel and one aircraft id.
FreqsTTL == {1}
IdsTTL == {1}

NextTTL ==
    \/ /\ now <= MaxCreateTime
       /\ \E f \in FreqsTTL, i \in IdsTTL, a \in Icaos : Create(f, i, a)
    \/ \E f \in FreqsTTL, i \in IdsTTL : Lookup(f, i)
    \/ \E f \in FreqsTTL, a \in Icaos : Delete(f, a)
    \/ Tick
    \/ ExpireFwd
    \/ ExpireInv
    \/ Destroy

SpecTTL == InitTTL /\ [][NextTTL]_vars

TypeOK ==
    /\ now \in 0..MaxTime
    /\ last.op \in {"none", "create", "lookup", "delete",
                    "expire_fwd", "expire_inv", "destroy"}
    /\ created_at \in [FwdKeys -> -1..MaxTime]
    /\ deleted_fwd \subseteq created_fwd
    /\ created_inv \subseteq InvKeys

(***************************************************************************)
(* What the two stores answer in a given object.                           *)
(***************************************************************************)
\* The forward store maps (freq, id) to icao_address.
FwdMaps(c, freq, id, icao_address) ==
    cache_entry_lookup(c.fwd_cache, FwdKey(freq, id)) = FwdEntry(icao_address)

\* The inverse store maps (freq, icao_address) to id.
InvMaps(c, freq, icao_address, id) ==
    cache_entry_lookup(c.inv_cache, InvKey(freq, icao_address)) = InvEntry(id)

\* A two-sided binding of (freq, icao_address): the inverse store maps it
\* to an id that the forward store maps back to icao_address.
Bound(c, freq, icao_address) ==
    \E i \in Ids : /\ InvMaps(c, freq, icao_address, i)
                   /\ FwdMaps(c, freq, i, icao_address)

(***************************************************************************)
(* Properties.                                                             *)
(***************************************************************************)

\* C1: after every completed public operation the two stores agree: for
\* every freq, id and icao_address the forward store maps (freq, id) to
\* icao_address if and only if the inverse store maps (freq, icao_address)
\* to id.
C1_StoresAgree ==
    \A f \in Freqs, i \in Ids, a \in Icaos :
        FwdMaps(cache, f, i, a) <=> InvMaps(cache, f, a, i)

\* C2: round trip: create(freq, id, icao_address) makes the forward store
\* map (freq, id) to icao_address, and every later step keeps that mapping
\* unless it is delete(freq, icao_address) or an expiration sweep of the
\* forward store.
C2_RoundTrip ==
    [][\A f \in Freqs, i \in Ids, a \in Icaos :
          /\ Create(f, i, a) => FwdMaps(cache', f, i, a)
          /\ (FwdMaps(cache, f, i, a) /\ ~Delete(f, a)
                  /\ last'.op # "expire_fwd")
             => FwdMaps(cache', f, i, a)]_vars

\* C3: a delete(freq, icao_address) that directly follows
\* create(freq, id, icao_address) returns true, and lookup(freq, id) then
\* finds nothing, whatever else the stores hold.
C3_DeleteAfterCreate ==
    (last.op = "delete" /\ last.prev_op = "create")
    => /\ last.result
       /\ ac_cache_entry_lookup(cache, last.freq, last.prev_id).e = NULL

\* Witness of C3: such a delete has returned true while other entries are
\* present in both stores.
C3_Witness ==
    /\ last.op = "delete" /\ last.prev_op = "create" /\ last.result
    /\ ac_cache_entry_lookup(cache, last.freq, last.prev_id).e = NULL
    /\ cache_elements(cache.fwd_cache) # {}
    /\ cache_elements(cache.inv_cache) # {}

\* C4: channel isolation: after create(c1, s, l1) and create(c2, s, l2)
\* with c1 # c2 both lookups resolve; delete(c1, l1) then leaves
\* lookup(c2, s) returning l2 and a later delete(c2, l2) returning true.
C4_ChannelIsolation ==
    [][\A c1 \in Freqs, c2 \in Freqs, s \in Ids, l1 \in Icaos, l2 \in Icaos :
          (/\ last.op = "create" /\ last.freq = c2 /\ last.id = s
           /\ last.icao_address = l2
           /\ last.prev_op = "create" /\ last.prev_freq = c1
           /\ last.prev_icao = l1)
          => /\ FwdMaps(cache, c1, s, l1)
             /\ FwdMaps(cache, c2, s, l2)
             /\ Delete(c1, l1)
                => /\ FwdMaps(cache', c2, s, l2)
                   /\ ac_cache_entry_delete(cache', c2, l2).result]_vars

\* C5: delete(freq, icao_address) for a (freq, icao_address) never passed
\* to create returns false and changes neither store.
C5_UnknownDelete ==
    [][\A f \in Freqs, a \in Icaos :
          (InvKey(f, a) \notin created_inv /\ Delete(f, a))
          => (~last'.result /\ cache' = cache)]_vars

\* C6: delete(freq, icao_address) returns true when a binding of
\* (freq, icao_address) exists, and a second delete(freq, icao_address)
\* directly after it returns false.
C6_DeleteTwice ==
    [][\A f \in Freqs, a \in Icaos :
          Delete(f, a)
          => /\ Bound(cache, f, a) => last'.result
             /\ last'.prev_op = "delete" => ~last'.result]_vars

\* Witness of C6: a second delete has returned false after a first one
\* returned true.
C6_Witness ==
    /\ last.op = "delete" /\ last.prev_op = "delete"
    /\ last.prev_result /\ ~last.result

\* C7: TTL expiry: a binding created at time T and not deleted since is
\* not returned by lookup at any time later than
\* T + AC_CACHE_TTL + AC_CACHE_EXPIRATION_INTERVAL.
C7_TTLExpiry ==
    \A k \in FwdKeys :
        (/\ ac_cache_entry_lookup(cache, k.freq, k.id).e # NULL
         /\ k \notin deleted_fwd)
        => now <= created_at[k] + AC_CACHE_TTL + AC_CACHE_EXPIRATION_INTERVAL

\* Witness of C7: a lookup has missed a binding that was created, was
\* never deleted and whose TTL has run out.
C7_Witness ==
    LET k == FwdKey(last.freq, last.id)
    IN  /\ last.op = "lookup" /\ ~last.result
        /\ k \in created_fwd /\ k \notin deleted_fwd
        /\ now > created_at[k] + AC_CACHE_TTL

\* C8: lookup(freq, id) returns an entry only if that entry was inserted
\* under exactly (freq, id) by a create; for a (freq, id) never created it
\* returns nothing, also when keys of the same hash are in the store.
C8_UnknownLookup ==
    \A k \in FwdKeys :
        LET pos == cache_find(cache.fwd_cache, k)
            bucket == cache.fwd_cache.table[ac_cache_fwd_key_hash(k)]
        IN  /\ pos # 0 => (k \in created_fwd /\ bucket[pos].key = k)
            /\ k \notin created_fwd
               => /\ ac_cache_entry_lookup(cache, k.freq, k.id).e = NULL
                  /\ (last.op = "lookup" /\ last.freq = k.freq
                          /\ last.id = k.id) => ~last.result

\* Witness of C8: a lookup of a (freq, id) never created has missed while
\* the bucket of its hash holds another key.
C8_Witness ==
    LET k == FwdKey(last.freq, last.id)
    IN  /\ last.op = "lookup" /\ ~last.result
        /\ k \notin created_fwd
        /\ cache.fwd_cache.table[ac_cache_fwd_key_hash(k)] # <<>>

\* C9: when the inverse store holds an entry for (freq, icao_address),
\* delete(freq, icao_address) deletes from the inverse store and from the
\* forward store under (freq, recovered id), and returns true if and only
\* if a store lost an entry; with the forward entry missing it still
\* removes the inverse entry and returns true.
C9_DeleteBothSides ==
    [][\A f \in Freqs, a \in Icaos :
          LET e == cache_entry_lookup(cache.inv_cache, InvKey(f, a))
          IN  (Delete(f, a) /\ e # NULL)
              => /\ cache_entry_lookup(cache'.inv_cache, InvKey(f, a)) = NULL
                 /\ cache_entry_lookup(cache'.fwd_cache, FwdKey(f, e.id))
                        = NULL
                 /\ last'.result = (cache' # cache)
                 /\ last'.result]_vars

\* Witness of C9: a delete found the inverse entry, found no forward entry
\* and returned true.
C9_Witness ==
    /\ last.op = "delete" /\ last.attempted
    /\ last.inv_deleted /\ ~last.fwd_deleted /\ last.result

\* C10: lookup is read-only: it leaves both stores as they are, and what
\* it returns does not depend on the inverse store.
C10_LookupReadOnly ==
    [][\A f \in Freqs, i \in Ids :
          Lookup(f, i)
          => /\ cache' = cache
             /\ ac_cache_entry_lookup(
                    [cache EXCEPT !.inv_cache = ac_cache_create(0, 0).inv_cache],
                    f, i).e
                = ac_cache_entry_lookup(cache, f, i).e]_vars

\* Witness of C10: a lookup has hit while the inverse store holds entries.
C10_Witness ==
    /\ last.op = "lookup" /\ last.result
    /\ cache_elements(cache.inv_cache) # {}

\* C11: after teardown both stores are destroyed and no forward or inverse
\* entry created before it remains reachable, whatever creates and deletes
\* preceded it.
C11_Teardown ==
    cache.freed
    => /\ cache.fwd_cache.destroyed /\ cache.inv_cache.destroyed
       /\ cache_elements(cache.fwd_cache) = {}
       /\ cache_elements(cache.inv_cache) = {}
       /\ \A k \in created_fwd :
              cache_entry_lookup(cache.fwd_cache, k) = NULL
       /\ \A k \in created_inv :
              cache_entry_lookup(cache.inv_cache, k) = NULL

\* Witness of C11: a teardown has run on an object whose stores held
\* elements, after creates and at least one delete.
C11_Witness ==
    /\ last.op = "destroy" /\ last.result /\ cache.freed
    /\ created_fwd # {} /\ created_inv # {} /\ deleted_fwd # {}

\* C12: the inverse-key equality, as the inverse store applies it to a key
\* it is given and a key it holds, returns true if and only if the two
\* keys have the same freq and the same icao_address.
C12_InvKeyEquality ==
    \A k1 \in InvKeys :
        \A e \in cache_elements(cache.inv_cache) :
            LET k2 == e.key
            IN  ac_cache_inv_key_compare(k1, k2)
                <=> (k1.freq = k2.freq /\ k1.icao_address = k2.icao_address)

\* The element of store c that a lookup of key finds; asked only when
\* there is one.
cache_found(c, key) ==
    c.table[cache_key_hash(c.vtable, key)][cache_find(c, key)]

\* The number of elements of store c that match key.
cache_matches(c, key) ==
    LET bucket == c.table[cache_key_hash(c.vtable, key)]
    IN  Cardinality({i \in 1..Len(bucket) :
                        cache_key_compare(c.vtable, key, bucket[i].key)})

\* C13: create(freq, id, icao_address) leaves exactly one entry under
\* (freq, id) in the forward store and exactly one under
\* (freq, icao_address) in the inverse store, holding icao_address and id,
\* both stamped with the one clock reading of the call, and adds or
\* changes no other element of either store.
C13_CreateOneEach ==
    [][\A f \in Freqs, i \in Ids, a \in Icaos :
          Create(f, i, a)
          => LET fwd == cache'.fwd_cache
                 inv == cache'.inv_cache
                 ef == cache_found(fwd, FwdKey(f, i))
                 ei == cache_found(inv, InvKey(f, a))
             IN  /\ cache_matches(fwd, FwdKey(f, i)) = 1
                 /\ cache_matches(inv, InvKey(f, a)) = 1
                 /\ ef.data = FwdEntry(a)
                 /\ ei.data = InvEntry(i)
                 /\ ef.created_time = now
                 /\ ei.created_time = ef.created_time
                 /\ cache_elements(fwd) \ {ef}
                        \subseteq cache_elements(cache.fwd_cache)
                 /\ cache_elements(inv) \ {ei}
                        \subseteq cache_elements(cache.inv_cache)]_vars

\* Witness of C13: a create at a later clock reading has stamped both of
\* its entries with that reading while an older inverse entry is present.
C13_Witness ==
    /\ last.op = "create" /\ now = MaxCreateTime
    /\ cache_found(cache.fwd_cache, FwdKey(last.freq, last.id)).created_time
           = now
    /\ cache_found(cache.inv_cache,
                   InvKey(last.freq, last.icao_address)).created_time = now
    /\ \E e \in cache_elements(cache.inv_cache) : e.created_time < now

\* Store c has run a sweep at or after time t.
cache_swept_since(c, t) == c.last_expiration_time >= t

\* The time of the first sweep of store c at or after time t, for a store
\* that has run one; sweeps are one expiration interval apart.
cache_first_sweep_since(c, t) ==
    c.last_expiration_time
        - ((c.last_expiration_time - t) \div c.expiration_interval)
              * c.expiration_interval

\* C14: a one-sided residue left by a sweep heals: once the sweep of one
\* store has run at or after the TTL deadline of an entry, and so has
\* removed that entry's other side, the entry itself is no longer in its
\* own store later than one expiration interval after that sweep.
C14_ResidueHeals ==
    /\ \A e \in cache_elements(cache.inv_cache) :
           LET deadline == e.created_time + AC_CACHE_TTL
           IN  cache_swept_since(cache.fwd_cache, deadline)
               => now <= cache_first_sweep_since(cache.fwd_cache, deadline)
                             + AC_CACHE_EXPIRATION_INTERVAL
    /\ \A e \in cache_elements(cache.fwd_cache) :
           LET deadline == e.created_time + AC_CACHE_TTL
           IN  cache_swept_since(cache.inv_cache, deadline)
               => now <= cache_first_sweep_since(cache.inv_cache, deadline)
                             + AC_CACHE_EXPIRATION_INTERVAL

\* Witness of C14: the sweep of the inverse store has removed what an
\* earlier sweep of the forward store had left one-sided, for a binding
\* that no delete had touched.
C14_Witness ==
    /\ last.op = "expire_inv" /\ last.result
    /\ cache.fwd_cache.last_expiration_time < now
    /\ cache_elements(cache.inv_cache) = {}
    /\ cache_elements(cache.fwd_cache) = {}
    /\ \E k \in created_fwd \ deleted_fwd :
           /\ created_at[k] + AC_CACHE_TTL
                  <= cache.fwd_cache.last_expiration_time
           /\ created_at[k] + AC_CACHE_TTL
                  > cache.fwd_cache.last_expiration_time
                        - AC_CACHE_EXPIRATION_INTERVAL

\* C15: when the inverse store has no entry for (freq, icao_address),
\* delete(freq, icao_address) returns false and changes neither store,
\* also when the forward store holds an entry of that frequency whose
\* address is icao_address.
C15_DeleteMiss ==
    [][\A f \in Freqs, a \in Icaos :
          (/\ Delete(f, a)
           /\ cache_entry_lookup(cache.inv_cache, InvKey(f, a)) = NULL)
          => (~last'.result /\ cache' = cache)]_vars

\* Witness of C15: a delete has found no inverse entry and returned false
\* while the forward store maps an id of that frequency to the address.
C15_Witness ==
    /\ last.op = "delete" /\ ~last.attempted /\ ~last.result
    /\ \E i \in Ids : FwdMaps(cache, last.freq, i, last.icao_address)

\* C16: delete(freq, icao_address) removes from the forward store only an
\* entry whose address is icao_address: a forward entry (freq, id) that
\* holds another address is still there afterwards.
C16_DeleteOnlyOwn ==
    [][\A f \in Freqs, a \in Icaos :
          Delete(f, a)
          => \A i \in Ids, b \in Icaos :
                 (b # a /\ FwdMaps(cache, f, i, b)) => FwdMaps(cache', f, i, b)]_vars

\* C17: within delete the inverse entry that the lookup returned is read
\* only before it is deleted from the inverse store: no access of the
\* call reads the entry after the store has destroyed it.
C17_NoReadAfterDestroy ==
    \A i \in 1..Len(last.e_accesses), j \in 1..Len(last.e_accesses) :
        (i < j /\ last.e_accesses[i].access = "destroy")
        => last.e_accesses[j].access # "read"

\* C18: hash and equality cohere in both stores: a key that the store's
\* key equality reports equal to a key the store holds has the same hash
\* as that key.
C18_HashCoherence ==
    /\ \A k1 \in FwdKeys :
           \A e \in cache_elements(cache.fwd_cache) :
               ac_cache_fwd_key_compare(k1, e.key)
               => ac_cache_fwd_key_hash(k1) = ac_cache_fwd_key_hash(e.key)
    /\ \A k1 \in InvKeys :
           \A e \in cache_elements(cache.inv_cache) :
               ac_cache_inv_key_compare(k1, e.key)
               => ac_cache_inv_key_hash(k1) = ac_cache_inv_key_hash(e.key)

====
